---- MODULE Spec2Model ----
(***************************************************************************)
(* Request admission and usage billing of the multi-tenant API gateway.    *)
(*                                                                         *)
(* Four specifications share the variables below:                          *)
(*   Spec         the API server as wired in cmd/api/main.go (the two      *)
(*                API-key routes, key revocation, the usage recorder);     *)
(*   SpecLimiter  RateLimitMiddleware driven with a request whose context  *)
(*                already carries org_id, in both copies of the file;      *)
(*   SpecBilling  the cron jobs of cmd/scheduler/main.go and               *)
(*                internal/jobs/billing.go, run by two scheduler processes *)
(*                whose database calls may fail;                           *)
(*   SpecPayments one scheduler process and the payment webhooks.          *)
(***************************************************************************)
EXTENDS Integers, Sequences, FiniteSets, TLC

(***************************************************************************)
(* Bounds of the model.                                                    *)
(***************************************************************************)
\* organizations rows; organization o has plan Plans[o] (cyclically)
NumOrgs == 2
\* scheduler processes running the same cron table (replicas, restarts)
NumSchedulers == 2
\* days in a calendar month of the model's clock
DaysPerMonth == 9
SecondsPerDay == 2
TicksPerSecond == 2
\* webhook requests the payment endpoints handle
MaxWebhooks == 2
\* requests the API server receives on its API-key routes
MaxRequests == 2
\* requests handed to RateLimitMiddleware alone
LimiterRequests == 3
\* seconds in a minute of the API server's clock
SecPerMin == 3
\* the last second of the API server's clock
MaxClock == 3
\* cfg.RateLimit, RATE_LIMIT_PER_MINUTE (60 when unset)
RateLimit == 1
\* the largest request count calculateBillingAmount is called with
MaxPricedRequests == 1100
MaxAuthRequests == 1
MaxHeaderParts == 3

(***************************************************************************)
(* Program constants.                                                      *)
(***************************************************************************)
\* limit := int32(100), the page size of ListOrganizations, scaled down so
\* that the organizations of the model fill a page
PageLimit == 2
\* dueDate := cycle.PeriodEnd.Time.Add(7 * 24 * time.Hour)
GraceDays == 7
\* Free plan: first 1000 requests are free
FreeIncluded == 1000
\* decimal.NewFromFloat(0.01), in thousandths of a dollar
RateStandard == 10
\* decimal.NewFromFloat(0.005), in thousandths of a dollar
RatePro == 5
\* decimal.NewFromInt(29), in thousandths of a dollar
BaseStarter == 29000
\* decimal.NewFromInt(99), in thousandths of a dollar
BasePro == 99000

Orgs == 1..NumOrgs
Schedulers == 1..NumSchedulers
Plans == <<"free", "starter", "pro">>
Nil == "nil"

VARIABLES
    \* ---- the PostgreSQL tables
    organizations,   \* organizations: id -> [plan]
    usage_records,   \* usage_records, as counts: <<organization_id, created_at>> -> rows
    billing_cycles,  \* billing_cycles: id -> [organization_id, period, total_requests, total_amount, status]
    \* ---- the scheduler processes
    today,           \* the wall clock, in days; month m is days m*DaysPerMonth .. (m+1)*DaysPerMonth-1
    monthly,         \* per scheduler: the run of the monthly cron function
    daily,           \* per scheduler: the run of the daily cron function
    \* ---- the webhook endpoints
    delivered,       \* per <<provider, cycle id>>: verified payment-succeeded deliveries handled
    paid_writes,     \* per <<provider, cycle id>>: status writes made by the webhook handler
    emails_sent,     \* per <<provider, cycle id>>: SendPaymentSuccess notifications started
    webhooks_handled,\* webhook requests handled so far
    last_webhook,    \* the webhook request handled last and the response it got
    \* ---- the API server
    api_keys,        \* api_keys: key -> [organization_id, is_active, last_used]
    requests,        \* the requests received, in order of arrival, and how far each has got
    rate_limit,      \* Redis: rate_limit key -> [count, expires]
    clock,           \* the wall clock of the API server, in seconds
    build,           \* which copy of the middleware is compiled: "cmd/api" or "root"
    \* ---- a call of calculateBillingAmount
    pricing,         \* its arguments, and the amounts it returned
    \* ---- the JWT routes
    auth_requests    \* the requests received by AuthMiddleware, and how far each has got

billVars == <<organizations, usage_records, billing_cycles, today, monthly, daily,
              delivered, paid_writes, emails_sent, webhooks_handled, last_webhook>>

apiVars == <<api_keys, requests, rate_limit, clock, build>>

vars == <<billVars, apiVars, pricing, auth_requests>>

(***************************************************************************)
(* Time.  today names an instant inside day `today`.  The period of month  *)
(* p starts at the first instant of day p*DaysPerMonth and its period_end  *)
(* (periodStart.AddDate(0,1,0).Add(-time.Second)) is the last second       *)
(* before day (p+1)*DaysPerMonth.                                          *)
(***************************************************************************)
MonthOf(d) == d \div DaysPerMonth
IsFirstOfMonth(d) == d % DaysPerMonth = 0
\* the day whose first instant follows period_end by one second
PeriodEndBefore(p) == (p + 1) * DaysPerMonth
\* bc.period_end < NOW()
PeriodEnded(p, now) == PeriodEndBefore(p) <= now
\* now.After(cycle.PeriodEnd.Time.Add(7 * 24 * time.Hour))
PastDue(p, now) == PeriodEndBefore(p) + GraceDays <= now

(***************************************************************************)
(* Pricing, in thousandths of a dollar (shopspring decimal is exact).      *)
(***************************************************************************)
calculateBillingAmountNoAllowance(totalRequests, plan) ==
    CASE plan = "free" -> totalRequests * RateStandard
      [] plan = "starter" -> BaseStarter + totalRequests * RateStandard
      [] plan = "pro" -> BasePro + totalRequests * RatePro
      [] OTHER -> 0
calculateBillingAmount(totalRequests, plan) ==
    CASE plan = "free" ->
            IF totalRequests <= FreeIncluded THEN 0
            ELSE (totalRequests - FreeIncluded) * RateStandard
      [] plan = "starter" -> BaseStarter + totalRequests * RateStandard
      [] plan = "pro" -> BasePro + totalRequests * RatePro
      [] OTHER -> 0

\* total_amount DECIMAL(10, 2): PostgreSQL rounds the value to cents, half away from zero
StoreNumeric(mills) == (mills + 5) \div 10

\* int32(totalRequests), for the column total_requests INTEGER
MaxInt32 == 2147483647
Int32(n) == IF n <= MaxInt32 THEN n ELSE n - MaxInt32 - MaxInt32 - 2

\* Timestamps (created_at, period_start, period_end) are counted in ticks,
\* fractions of a second: usage_records.created_at DEFAULT NOW() has a
\* fractional part, the period bounds computed by the job have none.
TicksPerDay == SecondsPerDay * TicksPerSecond
InstantsOf(d) == (d * TicksPerDay)..((d + 1) * TicksPerDay - 1)
\* periodStart := time.Date(now.Year(), now.Month()-1, 1, 0, 0, 0, 0, time.UTC)
periodStart(p) == p * DaysPerMonth * TicksPerDay
\* periodEnd := periodStart.AddDate(0, 1, 0).Add(-time.Second)
periodEnd(p) == periodStart(p + 1) - TicksPerSecond

RECURSIVE SumOver(_, _)
SumOver(f, K) ==
    IF K = {} THEN 0
    ELSE LET k == CHOOSE x \in K : TRUE IN f[k] + SumOver(f, K \ {k})

\* SELECT COUNT(*) FROM usage_records WHERE organization_id = $1
\*   AND created_at >= $2 AND created_at <= $3
CountOrganizationUsage(o, from, to) ==
    SumOver(usage_records,
            {k \in DOMAIN usage_records : k[1] = o /\ k[2] >= from /\ k[2] <= to})

(***************************************************************************)
(* Helpers over the tables.                                                *)
(***************************************************************************)
Min(a, b) == IF a <= b THEN a ELSE b

RECURSIVE SeqDesc(_)
\* the elements of a finite set of integers, largest first
SeqDesc(S) ==
    IF S = {} THEN <<>>
    ELSE LET m == CHOOSE x \in S : \A y \in S : y <= x
         IN <<m>> \o SeqDesc(S \ {m})

\* SELECT * FROM organizations ORDER BY created_at DESC LIMIT $1 OFFSET $2
\* (organization ids are handed out in creation order)
ListOrganizationsPage(limit, offset) ==
    LET all == SeqDesc(DOMAIN organizations)
    IN SubSeq(all, offset + 1, Min(offset + limit, Len(all)))

\* gen_random_uuid(): the id of the row scheduler s inserts for organization o
\* and period p; a run inserts at most one row per organization
NewCycleId(s, o, p) == <<s, o, p>>

IdRank(id) == (id[3] * (NumOrgs + 2) + id[2]) * (NumSchedulers + 2) + id[1]

RECURSIVE SortedIds(_)
\* ORDER BY bc.period_end ASC (rows of one period in id order)
SortedIds(S) ==
    IF S = {} THEN <<>>
    ELSE LET m == CHOOSE x \in S : \A y \in S : IdRank(x) <= IdRank(y)
         IN <<m>> \o SortedIds(S \ {m})

\* SELECT bc.* FROM billing_cycles bc JOIN organizations o ON bc.organization_id = o.id
\* WHERE bc.status = 'pending' AND bc.period_end < NOW()
GetPendingBillingCycles(now) ==
    {id \in DOMAIN billing_cycles :
        /\ billing_cycles[id].status = "pending"
        /\ PeriodEnded(billing_cycles[id].period, now)
        /\ billing_cycles[id].organization_id \in DOMAIN organizations}

\* UPDATE billing_cycles SET status = $1 WHERE id = $2
UpdateBillingCycleStatus(table, id, status) ==
    IF id \in DOMAIN table
    THEN [table EXCEPT ![id].status = status]
    ELSE table

\* INSERT INTO billing_cycles (...) VALUES (...): no uniqueness constraint
\* other than the primary key id
CreateBillingCycle(table, id, row) == table @@ (id :> row)

(***************************************************************************)
(* The monthly cron function: GenerateMonthlyBillingCycles, then           *)
(* AutoPayFreePlanInvoices when generation returned nil.                   *)
(***************************************************************************)
\* had, after and concurrent record the moment the run was triggered: the
\* organizations that had a cycle for the period, whether another scheduler's
\* run for the period had ended, and whether one was in progress; errors
\* names the database calls of the run that returned an error
\* started_with holds the organizations that existed when the run began and
\* processed the organizations createBillingCycleForOrg was called for, in
\* order
MonthlyIdle == [pc |-> "idle", period |-> -1, offset |-> 0, page |-> <<>>,
                idx |-> 0, pending |-> <<>>, had |-> {}, after |-> FALSE,
                concurrent |-> FALSE, errors |-> {},
                started_with |-> {}, processed |-> <<>>]
MonthlyEnd(m, how) == [MonthlyIdle EXCEPT !.pc = how, !.period = m.period, !.had = m.had,
                                          !.after = m.after, !.concurrent = m.concurrent,
                                          !.errors = m.errors,
                                          !.started_with = m.started_with,
                                          !.processed = m.processed]
\* the run after a call that returned ok, or an error
Outcome(m, call, ok) == IF ok THEN m ELSE [m EXCEPT !.errors = @ \cup {call}]
MonthlyEnded == {"done", "failed"}
MonthlyRunning == {"list", "create", "autopay_fetch", "autopay"}

\* the rows of organization o for period p
CyclesOf(o, p) ==
    {id \in DOMAIN billing_cycles :
        billing_cycles[id].organization_id = o /\ billing_cycles[id].period = p}

\* c.AddFunc("0 0 0 1 * *", ...): fires on the first day of a month; the run
\* reads time.Now() and bills the previous calendar month
MonthlyTrigger(s) ==
    /\ IsFirstOfMonth(today)
    /\ MonthOf(today) >= 1
    /\ monthly[s].pc \in {"idle", "done", "failed"}
    /\ monthly[s].period # MonthOf(today) - 1
    /\ LET p == MonthOf(today) - 1
           others == {t \in Schedulers \ {s} : monthly[t].period = p}
       IN monthly' = [monthly EXCEPT ![s] =
            [MonthlyIdle EXCEPT !.pc = "list", !.period = p,
                !.had = {o \in DOMAIN organizations : CyclesOf(o, p) # {}},
                !.started_with = DOMAIN organizations,
                !.after = \E t \in others : monthly[t].pc \in MonthlyEnded,
                !.concurrent = \E t \in others : monthly[t].pc \in MonthlyRunning]]
    /\ UNCHANGED <<pricing, auth_requests, organizations, usage_records, billing_cycles, today, daily,
                   delivered, paid_writes, emails_sent, webhooks_handled, last_webhook,
                   apiVars>>

\* one iteration of the paging loop: db.ListOrganizations, the error return and
\* the break on an empty page
ListOrganizations(s, ok) ==
    /\ monthly[s].pc = "list"
    /\  LET m == Outcome(monthly[s], "ListOrganizations", ok)
            page == ListOrganizationsPage(PageLimit, m.offset)
        IN monthly' = [monthly EXCEPT ![s] =
              IF ~ok THEN MonthlyEnd(m, "failed")
              ELSE IF Len(page) = 0 THEN [m EXCEPT !.pc = "autopay_fetch", !.page = <<>>]
              ELSE [m EXCEPT !.pc = "create", !.page = page, !.idx = 1]]
    /\ UNCHANGED <<pricing, auth_requests, organizations, usage_records, billing_cycles, today, daily,
                   delivered, paid_writes, emails_sent, webhooks_handled, last_webhook,
                   apiVars>>

\* the row createBillingCycleForOrg inserts for organization o and period p
NewCycleRow(o, p) ==
    LET totalRequests == CountOrganizationUsage(o, periodStart(p), periodEnd(p))
        totalAmount == calculateBillingAmount(totalRequests, organizations[o].plan)
    IN [organization_id |-> o, period |-> p, total_requests |-> Int32(totalRequests),
        total_amount |-> StoreNumeric(totalAmount), status |-> "pending"]

\* the rows of the table after createBillingCycleForOrg(org, period) succeeded
InsertCycle(table, s, o, p) == CreateBillingCycle(table, NewCycleId(s, o, p), NewCycleRow(o, p))

\* billing_cycles.organization_id is NOT NULL REFERENCES organizations(id)
CycleReferences(o) == o \in DOMAIN organizations

\* one iteration of `for _, org := range orgs`: createBillingCycleForOrg, whose
\* error is logged and skipped; after the last organization offset += limit
createBillingCycleForOrg(s, ok) ==
    /\ monthly[s].pc = "create"
    /\ LET o == monthly[s].page[monthly[s].idx]
           inserted == ok /\ CycleReferences(o)
           m == [Outcome(monthly[s], "CreateBillingCycle", inserted)
                    EXCEPT !.processed = Append(@, o)]
       IN /\ billing_cycles' = IF inserted THEN InsertCycle(billing_cycles, s, o, m.period)
                                  ELSE billing_cycles
          /\ monthly' = [monthly EXCEPT ![s] =
                IF m.idx < Len(m.page) THEN [m EXCEPT !.idx = m.idx + 1]
                ELSE [m EXCEPT !.pc = "list", !.offset = m.offset + PageLimit,
                               !.page = <<>>, !.idx = 0]]
    /\ UNCHANGED <<pricing, auth_requests, organizations, usage_records, today, daily,
                   delivered, paid_writes, emails_sent, webhooks_handled, last_webhook,
                   apiVars>>

\* the cycles of a pending snapshot AutoPayFreePlanInvoices writes to:
\* floatVal.Float64 == 0
ZeroAmountNone(ids) == {}
ZeroAmount(ids) == {id \in ids : billing_cycles[id].total_amount = 0}

\* AutoPayFreePlanInvoices up to its loop: db.GetPendingBillingCycles
AutoPayFetch(s, ok) ==
    /\ monthly[s].pc = "autopay_fetch"
    /\  LET m == Outcome(monthly[s], "GetPendingBillingCycles", ok)
            todo == SortedIds(ZeroAmount(GetPendingBillingCycles(today)))
        IN monthly' = [monthly EXCEPT ![s] =
              IF ~ok \/ Len(todo) = 0 THEN MonthlyEnd(m, "done")
              ELSE [m EXCEPT !.pc = "autopay", !.pending = todo, !.idx = 1]]
    /\ UNCHANGED <<pricing, auth_requests, organizations, usage_records, billing_cycles, today, daily,
                   delivered, paid_writes, emails_sent, webhooks_handled, last_webhook,
                   apiVars>>

\* one zero-amount cycle of the snapshot: UpdateBillingCycleStatus(paid), whose
\* error is logged and skipped
AutoPayStep(s, ok) ==
    /\ monthly[s].pc = "autopay"
    /\ LET m == Outcome(monthly[s], "UpdateBillingCycleStatus", ok)
           id == m.pending[m.idx]
       IN /\ billing_cycles' = IF ok THEN UpdateBillingCycleStatus(billing_cycles, id, "paid")
                                  ELSE billing_cycles
          /\ monthly' = [monthly EXCEPT ![s] =
                IF m.idx < Len(m.pending) THEN [m EXCEPT !.idx = m.idx + 1]
                ELSE MonthlyEnd(m, "done")]
    /\ UNCHANGED <<pricing, auth_requests, organizations, usage_records, today, daily,
                   delivered, paid_writes, emails_sent, webhooks_handled, last_webhook,
                   apiVars>>

(***************************************************************************)
(* The daily cron function: CheckAndMarkOverdueBillings.                   *)
(***************************************************************************)
\* fired: the function has run on the current day.  For the properties, the
\* record keeps what the last run of the day read and met: the rows
\* GetPendingBillingCycles returned (snapshot), the calls that returned an
\* error (errors), and whether the function has returned (ended)
DailyIdle(fired) == [pc |-> "idle", fired |-> fired, pending |-> <<>>, idx |-> 0,
                     snapshot |-> {}, errors |-> {}, ended |-> FALSE]
DailyEnd(d) == [d EXCEPT !.pc = "idle", !.pending = <<>>, !.idx = 0, !.ended = TRUE]

\* c.AddFunc("0 0 2 * * *", ...): fires once a day
DailyTrigger(s) ==
    /\ daily[s].pc = "idle"
    /\ ~daily[s].fired
    /\ daily' = [daily EXCEPT ![s] = [DailyIdle(TRUE) EXCEPT !.pc = "fetch"]]
    /\ UNCHANGED <<pricing, auth_requests, organizations, usage_records, billing_cycles, today, monthly,
                   delivered, paid_writes, emails_sent, webhooks_handled, last_webhook,
                   apiVars>>

\* the cycles of a pending snapshot the sweep writes to: now.After(dueDate)
OverdueIgnoringGrace(ids, now) == ids
Overdue(ids, now) == {id \in ids : PastDue(billing_cycles[id].period, now)}

\* CheckAndMarkOverdueBillings up to its loop: db.GetPendingBillingCycles and
\* now := time.Now()
OverdueFetch(s, ok) ==
    /\ daily[s].pc = "fetch"
    /\  LET rows == IF ok THEN GetPendingBillingCycles(today) ELSE {}
            todo == SortedIds(Overdue(rows, today))
            d == [Outcome(daily[s], "GetPendingBillingCycles", ok) EXCEPT !.snapshot = rows]
        IN daily' = [daily EXCEPT ![s] =
              IF Len(todo) = 0 THEN DailyEnd(d)
              ELSE [d EXCEPT !.pc = "mark", !.pending = todo, !.idx = 1]]
    /\ UNCHANGED <<pricing, auth_requests, organizations, usage_records, billing_cycles, today, monthly,
                   delivered, paid_writes, emails_sent, webhooks_handled, last_webhook,
                   apiVars>>

\* one past-due cycle of the snapshot: UpdateBillingCycleStatus(overdue), whose
\* error is logged and skipped
OverdueMark(s, ok) ==
    /\ daily[s].pc = "mark"
    /\ LET d == Outcome(daily[s], "UpdateBillingCycleStatus", ok)
           id == d.pending[d.idx]
       IN /\ billing_cycles' = IF ok THEN UpdateBillingCycleStatus(billing_cycles, id, "overdue")
                                  ELSE billing_cycles
          /\ daily' = [daily EXCEPT ![s] =
                IF d.idx < Len(d.pending) THEN [d EXCEPT !.idx = d.idx + 1]
                ELSE DailyEnd(d)]
    /\ UNCHANGED <<pricing, auth_requests, organizations, usage_records, today, monthly,
                   delivered, paid_writes, emails_sent, webhooks_handled, last_webhook,
                   apiVars>>

\* the instants at which the model looks at the system: the first day of
\* month 1, the last day of the grace period of month 0's cycles, and the
\* first day past it
FirstDay == DaysPerMonth
ObservedDays == {FirstDay, FirstDay + GraceDays - 1, FirstDay + GraceDays}

\* no cron function is running (every run ends on the day it started)
Quiescent ==
    \A s \in Schedulers : monthly[s].pc \notin MonthlyRunning /\ daily[s].pc = "idle"

\* time passes to a later observed day
Tick ==
    /\ Quiescent
    /\ \E d \in ObservedDays : d > today /\ today' = d
    /\ daily' = [s \in Schedulers |-> DailyIdle(FALSE)]
    /\ UNCHANGED <<pricing, auth_requests, organizations, usage_records, billing_cycles, monthly,
                   delivered, paid_writes, emails_sent, webhooks_handled, last_webhook,
                   apiVars>>

(***************************************************************************)
(* The payment webhooks.  A request is described by what the handler reads *)
(* of it: the signature header against the body (missing, invalid, valid), *)
(* the event (payment succeeded, another type, an unparsable payload), the *)
(* billing_cycle_id of its metadata (a cycle id, none, an unknown id),    *)
(* whether its organization_id resolves, and whether the status write      *)
(* succeeds.  GetBillingCycle and UpdateBillingCycleStatus are one step:   *)
(* the row read is used for the notification only.                         *)
(***************************************************************************)
Providers == {"stripe", "paystack", "generic"}
Signatures == {"missing", "invalid", "valid"}
Events == {"success", "other", "unparsable"}
Amounts == {"match", "mismatch", "invalid"}
\* metadata without a billing_cycle_id, and an id no row has
MissingId == <<0, 0, -1>>
UnknownId == <<0, 0, -2>>
Targets == DOMAIN billing_cycles \cup {MissingId, UnknownId}
NoWebhook == [provider |-> Nil, sig |-> Nil, evt |-> Nil, target |-> MissingId,
              amount |-> Nil, db_ok |-> TRUE,
              code |-> 0, wrote |-> FALSE, emailed |-> FALSE, before |-> Nil]

Count(f, k) == IF k \in DOMAIN f THEN f[k] ELSE 0
Bump(f, k) == [x \in DOMAIN f \cup {k} |-> IF x = k THEN Count(f, k) + 1 ELSE f[x]]

\* what a handler leaves behind: the request and the outcome of its database
\* call (amount is Nil for a handler that does not read it), the response and
\* the writes it made
Handled(provider, sig, evt, target, amount, ok, code, wrote, emailed) ==
    /\ webhooks_handled' = webhooks_handled + 1
    /\ last_webhook' = [provider |-> provider, sig |-> sig, evt |-> evt, target |-> target,
                        amount |-> amount, db_ok |-> ok,
                        code |-> code, wrote |-> wrote, emailed |-> emailed,
                        before |-> IF target \in DOMAIN billing_cycles
                                   THEN billing_cycles[target].status ELSE Nil]
    /\ delivered' = IF sig = "valid" /\ evt = "success" /\ target \in DOMAIN billing_cycles
                    THEN Bump(delivered, <<provider, target>>) ELSE delivered
    /\ paid_writes' = IF wrote THEN Bump(paid_writes, <<provider, target>>) ELSE paid_writes
    /\ emails_sent' = IF emailed THEN Bump(emails_sent, <<provider, target>>) ELSE emails_sent
    /\ billing_cycles' = IF wrote THEN UpdateBillingCycleStatus(billing_cycles, target, "paid")
                         ELSE billing_cycles

\* the status of the response of stripeWebhookHandler / paystackWebhookHandler
\* and whether the handler reaches UpdateBillingCycleStatus
SignedWebhookCodeUnauthorized(sig) == 401
SignedWebhookCode(sig) == IF sig = "valid" THEN 200 ELSE 401
SignedWebhookUpdates(sig, evt, target) ==
    /\ sig = "valid"
    /\ evt = "success"
    /\ target \in DOMAIN billing_cycles

\* POST /api/v1/webhooks/stripe
stripeWebhookHandler(sig, evt, target, org_found, ok) ==
    /\ webhooks_handled < MaxWebhooks
    /\ LET wrote == SignedWebhookUpdates(sig, evt, target) /\ ok
       IN Handled("stripe", sig, evt, target, Nil, ok, SignedWebhookCode(sig), wrote,
                  wrote /\ org_found)
    /\ UNCHANGED <<pricing, auth_requests, organizations, usage_records, today, monthly, daily, apiVars>>

\* POST /api/v1/webhooks/paystack
paystackWebhookHandler(sig, evt, target, org_found, ok) ==
    /\ webhooks_handled < MaxWebhooks
    /\ LET wrote == SignedWebhookUpdates(sig, evt, target) /\ ok
       IN Handled("paystack", sig, evt, target, Nil, ok, SignedWebhookCode(sig), wrote,
                  wrote /\ org_found)
    /\ UNCHANGED <<pricing, auth_requests, organizations, usage_records, today, monthly, daily, apiVars>>

\* paymentWebhookHandler (POST /api/v1/webhooks/payment): the signature check
\* is commented out, so the header is not read
GenericWebhookCode(evt) == IF evt = "unparsable" THEN 400 ELSE 200
GenericWebhookUpdatesOnMatch(sig, evt, target, amount) ==
    /\ evt = "success"
    /\ target \in DOMAIN billing_cycles
    /\ amount = "match"
GenericWebhookUpdates(sig, evt, target, amount) ==
    /\ evt = "success"
    /\ target \in DOMAIN billing_cycles
    /\ amount # "invalid"

paymentWebhookHandler(sig, evt, target, amount, ok) ==
    /\ webhooks_handled < MaxWebhooks
    /\ LET wrote == GenericWebhookUpdates(sig, evt, target, amount) /\ ok
       IN Handled("generic", sig, evt, target, amount, ok, GenericWebhookCode(evt), wrote,
                  FALSE)
    /\ UNCHANGED <<pricing, auth_requests, organizations, usage_records, today, monthly, daily, apiVars>>

(***************************************************************************)
(* The API server: the API-key routes of cmd/api/main.go.  A request is a  *)
(* record that walks the chain of middleware its route was registered      *)
(* with, outermost first; every middleware is one step.  The usage         *)
(* recorder's second half (the goroutine started after next.ServeHTTP      *)
(* returns) is the step CreateUsageRecord.                                 *)
(***************************************************************************)
Keys == {"k1", "k2"}
\* no X-API-Key header, and a key no api_keys row has
MissingKey == ""
UnknownKey == "k0"
Headers == Keys \cup {MissingKey, UnknownKey}
Bodies == {"valid", "invalid"}
Routes == {"send", "status"}
Builds == {"cmd/api", "root"}
\* uuid.Nil, as an organization id
ZeroUUID == 0

\* mux.Handle("POST /api/v1/messages/send", usageTracking(rateLimit(apiKey(send))))
\* mux.Handle("GET /api/v1/messages/{id}", apiKey(getMessageStatus))
Wiring(route) ==
    IF route = "send" THEN <<"usage", "ratelimit", "apikey", "handler">>
    ELSE <<"apikey", "handler">>
Path(route) == IF route = "send" THEN "/api/v1/messages/send" ELSE "/api/v1/messages/{id}"
Method(route) == IF route = "send" THEN "POST" ELSE "GET"

NoRecorder == [on |-> FALSE, organization_id |-> ZeroUUID, api_key_id |-> Nil, statusCode |-> 0]
NoUsage == [issued |-> FALSE, organization_id |-> ZeroUUID, api_key_id |-> Nil,
            endpoint |-> Nil, method |-> Nil, status_code |-> 0, inserted |-> FALSE]

\* the api_keys row the header names, while it is active
GetAPIKeyByKey(key) ==
    key \in DOMAIN api_keys /\ api_keys[key].is_active
       /\ api_keys[key].organization_id \in DOMAIN organizations

NewRequest(route, header, chain, org, key) ==
    [route |-> route, header |-> header, chain |-> chain, pc |-> chain[1],
     active_on_arrival |-> GetAPIKeyByKey(header),
     ctx_org |-> org, ctx_key |-> key, recorder |-> NoRecorder,
     lookup |-> "none", at |-> -1, turn |-> 0, incr |-> "none", remaining |-> -1,
     count |-> -1, reset |-> -1, retry_after |-> -1,
     status |-> 0, trace |-> <<>>, usage |-> NoUsage]

Reached(r, stage) == \E j \in DOMAIN r.trace : r.trace[j] = stage
Before(r, a, b) ==
    \E j, k \in DOMAIN r.trace : r.trace[j] = a /\ r.trace[k] = b /\ j < k

\* the request when the middleware or handler at r.pc starts
Enter(r) == [r EXCEPT !.trace = Append(@, r.pc)]
\* next.ServeHTTP(w, r)
ServeNext(r) ==
    LET j == CHOOSE k \in DOMAIN r.chain : r.chain[k] = r.pc
    IN [r EXCEPT !.pc = r.chain[j + 1]]
\* w.WriteHeader(code), through the statusRecorder when one wraps w
WriteHeader(r, code) ==
    [r EXCEPT !.status = code,
              !.recorder.statusCode = IF r.recorder.on THEN code ELSE @]
\* the handler returns: control is back in the usage recorder, if any
Return(r) == [r EXCEPT !.pc = IF r.recorder.on THEN "record" ELSE "done"]
respondWithError(r, code) == Return(WriteHeader(r, code))
respondWithJSON(r, code) == Return(WriteHeader(r, code))

Arrive(route, header) ==
    /\ Len(requests) < MaxRequests
    /\ requests' = Append(requests, NewRequest(route, header, Wiring(route), ZeroUUID, Nil))
    /\ UNCHANGED <<pricing, auth_requests, billVars, api_keys, rate_limit, clock, build>>

UsageTrackingMiddleware(i) ==
    /\ requests[i].pc = "usage"
    /\ LET r == Enter(requests[i])
           rec == [on |-> TRUE, organization_id |-> r.ctx_org,
                   api_key_id |-> r.ctx_key, statusCode |-> 200]
       IN requests' = [requests EXCEPT ![i] = ServeNext([r EXCEPT !.recorder = rec])]
    /\ UNCHANGED <<pricing, auth_requests, billVars, api_keys, rate_limit, clock, build>>

APIKeyMiddleware(i, ok) ==
    /\ requests[i].pc = "apikey"
    /\ LET r == Enter(requests[i])
           found == ok /\ GetAPIKeyByKey(r.header)
       IN IF r.header = MissingKey
          THEN /\ requests' = [requests EXCEPT ![i] = respondWithError(r, 401)]
               /\ UNCHANGED api_keys
          ELSE IF ~found
          THEN /\ requests' = [requests EXCEPT ![i] =
                     respondWithError([r EXCEPT !.lookup = IF ok THEN "not_found" ELSE "error"], 401)]
               /\ UNCHANGED api_keys
          ELSE /\ requests' = [requests EXCEPT ![i] =
                     ServeNext([r EXCEPT !.lookup = "found",
                                         !.ctx_key = r.header,
                                         !.ctx_org = api_keys[r.header].organization_id])]
               /\ api_keys' = [api_keys EXCEPT ![r.header].last_used = TRUE]
    /\ UNCHANGED <<pricing, auth_requests, billVars, rate_limit, clock, build>>

(***************************************************************************)
(* RateLimitMiddleware.  The counter's key is the organization id and      *)
(* time.Now().Format(layout).  Format prints one field of the instant per  *)
(* reference element it finds in the layout; the two copies of the file    *)
(* pass different layouts:                                                 *)
(*   middleware.go    "2006-01-02-15-04"  year month day hour minute       *)
(*   cmd/api/main.go  "2025-10-02-15-04"  "2" day, "02" day, "5" second,   *)
(*                    "1" month, "0" literal, then day hour minute         *)
(* The model's clock counts seconds and stays within one hour, so every    *)
(* field but the minute and the second prints the same text throughout.    *)
(***************************************************************************)
LayoutHourly == <<"year", "month", "day", "hour">>
LayoutRoot == <<"year", "month", "day", "hour", "minute">>
LayoutApi == <<"day", "day", "second", "month", "day", "hour", "minute">>
Layout(b) == IF b = "root" THEN LayoutRoot ELSE LayoutApi
Field(f, t) ==
    CASE f = "second" -> t % SecPerMin
      [] f = "minute" -> t \div SecPerMin
      [] OTHER -> 0
Format(layout, t) == [j \in DOMAIN layout |-> Field(layout[j], t)]
\* fmt.Sprintf("rate_limit:%s:%s", orgID.String(), time.Now().Format(...))
RateLimitKeyShared(org, t) == <<ZeroUUID, Format(Layout(build), t)>>
RateLimitKey(org, t) == <<org, Format(Layout(build), t)>>

\* the expires of a key that has no time to live: INCR creates the key
\* without one
NoTTL == -1
\* redisClient.Expire(ctx, key, time.Minute), whose result is not read:
\* expire_ok tells whether the command took effect
Expire(expire_ok) == IF expire_ok THEN clock + SecPerMin ELSE NoTTL

\* redisClient.Incr(ctx, key), then redisClient.Expire(ctx, key, time.Minute)
\* when the count returned is 1
IncrCount(key) == IF key \in DOMAIN rate_limit THEN rate_limit[key].count + 1 ELSE 1
Incr(key, expire_ok) ==
    LET count == IncrCount(key)
        row == [count |-> count,
                expires |-> IF count = 1 THEN Expire(expire_ok)
                            ELSE rate_limit[key].expires]
    IN [k \in DOMAIN rate_limit \cup {key} |-> IF k = key THEN row ELSE rate_limit[k]]

\* if err != nil { next.ServeHTTP(w, r); return }
OnIncrErrorFailClosed(r) == respondWithError(r, 503)
OnIncrError(r) == ServeNext(r)

\* time.Now().Add(time.Minute).Unix(), in seconds
ResetAfter(now) == now + SecPerMin
\* "retry_after": 60, the width of a minute in seconds
RetryAfter == SecPerMin

\* the limiter's verdict on the count Incr returned, with the
\* X-RateLimit-Remaining and X-RateLimit-Reset headers it sets and the
\* retry_after of the 429 body
OnCount(r, count) ==
    IF count > RateLimit
    THEN respondWithError([r EXCEPT !.count = count, !.remaining = 0,
                                    !.reset = ResetAfter(r.at),
                                    !.retry_after = RetryAfter], 429)
    ELSE ServeNext([r EXCEPT !.count = count, !.remaining = RateLimit - count,
                             !.reset = ResetAfter(r.at)])

\* the requests that have called Incr so far
Turns == Cardinality({j \in DOMAIN requests : requests[j].turn > 0})

RateLimitMiddleware(i, ok, expire_ok) ==
    /\ requests[i].pc = "ratelimit"
    /\ LET r == Enter(requests[i])
           key == RateLimitKey(r.ctx_org, clock)
           timed == [r EXCEPT !.at = clock, !.turn = Turns + 1,
                              !.incr = IF ok THEN "ok" ELSE "error"]
       IN IF r.ctx_org = ZeroUUID
          THEN /\ requests' = [requests EXCEPT ![i] = respondWithError(r, 500)]
               /\ UNCHANGED rate_limit
          ELSE IF ~ok
          THEN /\ requests' = [requests EXCEPT ![i] = OnIncrError(timed)]
               /\ UNCHANGED rate_limit
          ELSE /\ requests' = [requests EXCEPT ![i] = OnCount(timed, IncrCount(key))]
               /\ rate_limit' = Incr(key, expire_ok)
    /\ UNCHANGED <<pricing, auth_requests, billVars, api_keys, clock, build>>

\* sendMessageHandler: 400 for a body that does not decode or validate
sendMessageHandler(r, body) ==
    IF body = "valid" THEN respondWithJSON(r, 200) ELSE respondWithError(r, 400)
\* getMessageStatusHandler: the route's {id} is never empty
getMessageStatusHandler(r) == respondWithJSON(r, 200)

\* the innermost http.Handler of the request's route
ServeHandler(i, body) ==
    /\ requests[i].pc = "handler"
    /\ LET r == Enter(requests[i])
       IN requests' = [requests EXCEPT ![i] =
              IF r.route = "send" THEN sendMessageHandler(r, body)
              ELSE getMessageStatusHandler(r)]
    /\ UNCHANGED <<pricing, auth_requests, billVars, api_keys, rate_limit, clock, build>>

\* usage_records.organization_id and usage_records.api_key_id are NOT NULL
\* REFERENCES organizations(id) and api_keys(id)
UsageRecordUnconstrained(org, key) == TRUE
UsageRecordReferences(org, key) ==
    org \in DOMAIN organizations /\ key \in DOMAIN api_keys

\* the request after the goroutine's db.CreateUsageRecord returned: an error
\* is printed, and nothing else of the request changes
UsageWriteSurfaced(r, row) ==
    [r EXCEPT !.usage = row, !.pc = "done", !.status = IF row.inserted THEN @ ELSE 503]
UsageWritten(r, row) == [r EXCEPT !.usage = row, !.pc = "done"]

\* the goroutine of UsageTrackingMiddleware: INSERT INTO usage_records.  The
\* row needs organization_id and api_key_id to reference existing rows.
CreateUsageRecord(i, ok) ==
    /\ requests[i].pc = "record"
    /\ LET r == requests[i]
           inserted == /\ ok
                       /\ UsageRecordReferences(r.recorder.organization_id,
                                                r.recorder.api_key_id)
           row == [issued |-> TRUE,
                   organization_id |-> r.recorder.organization_id,
                   api_key_id |-> r.recorder.api_key_id,
                   endpoint |-> Path(r.route), method |-> Method(r.route),
                   status_code |-> r.recorder.statusCode, inserted |-> inserted]
       IN /\ requests' = [requests EXCEPT ![i] = UsageWritten(r, row)]
          /\ \E created_at \in InstantsOf(today) :
                usage_records' =
                   IF inserted
                   THEN Bump(usage_records, <<r.recorder.organization_id, created_at>>)
                   ELSE usage_records
    /\ UNCHANGED <<pricing, auth_requests, organizations, billing_cycles, today, monthly, daily,
                   delivered, paid_writes, emails_sent, webhooks_handled, last_webhook,
                   api_keys, rate_limit, clock, build>>

\* revokeAPIKeyHandler, for an owner or admin of the key's organization
revokeAPIKeyHandler(key) ==
    /\ key \in DOMAIN api_keys
    /\ api_keys' = [api_keys EXCEPT ![key].is_active = FALSE]
    /\ UNCHANGED <<pricing, auth_requests, billVars, requests, rate_limit, clock, build>>

\* a request handed to RateLimitMiddleware with org_id in its context, as
\* APIKeyMiddleware leaves it; next is sendMessageHandler
ArriveAtLimiter(key) ==
    /\ Len(requests) < LimiterRequests
    /\ GetAPIKeyByKey(key)
    /\ requests' = Append(requests,
          NewRequest("send", key, <<"ratelimit", "handler">>,
                     api_keys[key].organization_id, key))
    /\ UNCHANGED <<pricing, auth_requests, billVars, api_keys, rate_limit, clock, build>>

\* a second passes; Redis drops the keys whose time to live has run out
ClockTick ==
    /\ clock < MaxClock
    /\ clock' = clock + 1
    /\ rate_limit' = [k \in {x \in DOMAIN rate_limit :
                                 \/ rate_limit[x].expires = NoTTL
                                 \/ rate_limit[x].expires > clock + 1}
                         |-> rate_limit[k]]
    /\ UNCHANGED <<pricing, auth_requests, billVars, api_keys, requests, build>>

InitialAPIKeys ==
    [k \in Keys |-> [organization_id |-> IF k = "k1" THEN 1 ELSE NumOrgs,
                     is_active |-> TRUE, last_used |-> FALSE]]

InitApi ==
    /\ api_keys = InitialAPIKeys
    /\ requests = <<>>
    /\ rate_limit = <<>>
    /\ clock = 0
    /\ auth_requests = <<>>

(***************************************************************************)
(* SpecBilling                                                             *)
(***************************************************************************)
UsageLevels == {0, 1500}

\* the tables and processes other than usage_records
InitTables ==
    /\ organizations = [o \in Orgs |-> [plan |-> Plans[((o - 1) % 3) + 1]]]
    /\ billing_cycles = <<>>
    /\ today = FirstDay
    /\ monthly = [s \in Schedulers |-> MonthlyIdle]
    /\ daily = [s \in Schedulers |-> DailyIdle(FALSE)]
    /\ delivered = <<>>
    /\ paid_writes = <<>>
    /\ emails_sent = <<>>
    /\ webhooks_handled = 0
    /\ last_webhook = NoWebhook

\* the usage of month 0, recorded at the first instant of the month
InitStore ==
    /\ InitTables
    /\ usage_records \in [Orgs \X {periodStart(0)} -> UsageLevels]
    /\ \A o \in Orgs :
          organizations[o].plan # "free" => usage_records[<<o, periodStart(0)>>] = 0

NoPricing == [requests |-> 0, plan |-> Nil, calls |-> 0, amount |-> 0, again |-> 0,
              total_requests |-> -1, total_amount |-> -1]

InitBilling == InitStore /\ InitApi /\ build = "cmd/api" /\ pricing = NoPricing

NextBilling ==
    \/ \E s \in Schedulers : MonthlyTrigger(s)
    \/ \E s \in Schedulers, ok \in BOOLEAN : ListOrganizations(s, ok)
    \/ \E s \in Schedulers, ok \in BOOLEAN : createBillingCycleForOrg(s, ok)
    \/ \E s \in Schedulers, ok \in BOOLEAN : AutoPayFetch(s, ok)
    \/ \E s \in Schedulers, ok \in BOOLEAN : AutoPayStep(s, ok)
    \/ \E s \in Schedulers : DailyTrigger(s)
    \/ \E s \in Schedulers, ok \in BOOLEAN : OverdueFetch(s, ok)
    \/ \E s \in Schedulers, ok \in BOOLEAN : OverdueMark(s, ok)
    \/ Tick

SpecBilling == InitBilling /\ [][NextBilling]_vars

(***************************************************************************)
(* SpecPayments: one scheduler process whose database calls succeed, and   *)
(* the webhook endpoints.                                                  *)
(***************************************************************************)
\* the outcomes of the calls a handler makes after its checks: they are
\* drawn only for a request that reaches those calls
Relevant(reached) == IF reached THEN BOOLEAN ELSE {TRUE}

\* the amounts of a request to paymentWebhookHandler: the field is parsed
\* only after the event check and GetBillingCycle
AmountsRead(evt, target) ==
    IF evt = "success" /\ target \in DOMAIN billing_cycles THEN Amounts ELSE {"match"}

NextPayments ==
    \/ MonthlyTrigger(1)
    \/ ListOrganizations(1, TRUE)
    \/ createBillingCycleForOrg(1, TRUE)
    \/ AutoPayFetch(1, TRUE)
    \/ AutoPayStep(1, TRUE)
    \/ DailyTrigger(1)
    \/ OverdueFetch(1, TRUE)
    \/ OverdueMark(1, TRUE)
    \/ Tick
    \/ \E sig \in Signatures, evt \in Events, target \in Targets :
          \E org_found, ok \in Relevant(SignedWebhookUpdates(sig, evt, target)) :
             stripeWebhookHandler(sig, evt, target, org_found, ok)
    \/ \E sig \in Signatures, evt \in Events, target \in Targets :
          \E org_found, ok \in Relevant(SignedWebhookUpdates(sig, evt, target)) :
             paystackWebhookHandler(sig, evt, target, org_found, ok)
    \/ \E sig \in Signatures, evt \in Events, target \in Targets :
          \E amount \in AmountsRead(evt, target) :
          \E ok \in Relevant(GenericWebhookUpdates(sig, evt, target, amount)) :
             paymentWebhookHandler(sig, evt, target, amount, ok)

SpecPayments == InitBilling /\ [][NextPayments]_vars

(***************************************************************************)
(* Spec: the API server of cmd/api with its two API-key routes.            *)
(***************************************************************************)
NoUsageYet == \A o \in Orgs : usage_records[<<o, periodStart(0)>>] = 0

Init == InitStore /\ NoUsageYet /\ InitApi /\ build = "cmd/api" /\ pricing = NoPricing

Next ==
    \/ \E route \in Routes, header \in Headers : Arrive(route, header)
    \/ \E i \in DOMAIN requests : UsageTrackingMiddleware(i)
    \/ \E i \in DOMAIN requests, ok \in BOOLEAN : RateLimitMiddleware(i, ok, TRUE)
    \/ \E i \in DOMAIN requests, ok \in BOOLEAN : APIKeyMiddleware(i, ok)
    \/ \E i \in DOMAIN requests, body \in Bodies : ServeHandler(i, body)
    \/ \E i \in DOMAIN requests, ok \in BOOLEAN : CreateUsageRecord(i, ok)
    \/ \E key \in Keys : revokeAPIKeyHandler(key)

Spec == Init /\ [][Next]_vars

(***************************************************************************)
(* SpecLimiter: RateLimitMiddleware in front of sendMessageHandler, given  *)
(* requests whose context carries org_id, in either copy of the file.      *)
(***************************************************************************)
InitLimiter ==
    InitStore /\ NoUsageYet /\ InitApi /\ build \in Builds /\ pricing = NoPricing

NextLimiter ==
    \/ \E key \in Keys : ArriveAtLimiter(key)
    \/ \E i \in DOMAIN requests, ok \in BOOLEAN : RateLimitMiddleware(i, ok, TRUE)
    \/ \E i \in DOMAIN requests, body \in Bodies : ServeHandler(i, body)
    \/ ClockTick

SpecLimiter == InitLimiter /\ [][NextLimiter]_vars

(***************************************************************************)
(* SpecPricing: calculateBillingAmount, called with a request count and a  *)
(* plan, and called again with the same arguments.                         *)
(***************************************************************************)
PlanTypes == {Plans[j] : j \in DOMAIN Plans}

InitPricing ==
    /\ InitStore /\ NoUsageYet /\ InitApi /\ build = "cmd/api"
    /\ pricing \in {[NoPricing EXCEPT !.requests = n, !.plan = plan] :
                       n \in 0..MaxPricedRequests, plan \in PlanTypes}

Price ==
    /\ pricing.calls = 0
    /\ pricing' = [pricing EXCEPT
           !.calls = 1,
           !.amount = calculateBillingAmount(pricing.requests, pricing.plan)]
    /\ UNCHANGED <<billVars, apiVars, auth_requests>>

PriceAgain ==
    /\ pricing.calls = 1
    /\ pricing' = [pricing EXCEPT
           !.calls = 2,
           !.again = calculateBillingAmount(pricing.requests, pricing.plan)]
    /\ UNCHANGED <<billVars, apiVars, auth_requests>>

\* the values createBillingCycleForOrg hands to CreateBillingCycle, as the
\* columns total_requests and total_amount hold them
Persist ==
    /\ pricing.calls = 2
    /\ pricing' = [pricing EXCEPT
           !.calls = 3,
           !.total_requests = Int32(pricing.requests),
           !.total_amount = StoreNumeric(pricing.amount)]
    /\ UNCHANGED <<billVars, apiVars, auth_requests>>

NextPricing == Price \/ PriceAgain \/ Persist

SpecPricing == InitPricing /\ [][NextPricing]_vars

(***************************************************************************)
(* Claims about the billing jobs (SpecBilling).                            *)
(***************************************************************************)

\* C1: a run of monthly cycle generation that starts after another run for
\* the same period has ended inserts no row for a tenant that already had a
\* cycle for that period, so that tenant keeps exactly one row for the period.
C1_SecondRunInsertsNothing ==
    \A s \in Schedulers :
        (monthly[s].after /\ monthly[s].pc \in MonthlyEnded) =>
            \A o \in monthly[s].had :
                /\ NewCycleId(s, o, monthly[s].period) \notin DOMAIN billing_cycles
                /\ Cardinality(CyclesOf(o, monthly[s].period)) = 1

\* C9: when runs of monthly cycle generation for the same period overlapped
\* in time and all have finished, no tenant has two cycles for the period.
C9_OverlappingRunsOneCycle ==
    (/\ \A s \in Schedulers : monthly[s].pc \notin MonthlyRunning
     /\ \E s \in Schedulers : monthly[s].concurrent) =>
        \A s \in Schedulers : \A o \in DOMAIN organizations :
            Cardinality(CyclesOf(o, monthly[s].period)) <= 1

(***************************************************************************)
(* Claims about the payment webhooks and the sweeps (SpecPayments).        *)
(***************************************************************************)
AllowedTransitions ==
    {<<"pending", "paid">>, <<"pending", "overdue">>, <<"overdue", "paid">>}

\* C2: the status of a billing cycle changes only along pending -> paid,
\* pending -> overdue or overdue -> paid, under every interleaving of the
\* overdue sweep, the auto-pay sweep and the webhooks.
C2_StatusMonotonic ==
    [][\A id \in DOMAIN billing_cycles :
          billing_cycles'[id].status # billing_cycles[id].status =>
              <<billing_cycles[id].status, billing_cycles'[id].status>> \in AllowedTransitions]_vars

\* the request handled last was a verified payment-succeeded event of
\* Stripe or Paystack that resolved to a cycle
VerifiedSuccess ==
    /\ last_webhook.provider \in {"stripe", "paystack"}
    /\ last_webhook.sig = "valid"
    /\ last_webhook.evt = "success"
    /\ last_webhook.target \in DOMAIN billing_cycles

\* C3: a second delivery of the same verified payment-succeeded webhook for
\* a cycle that is already paid is a no-op (no status write, no second
\* notification) and is answered 200.
C3_ReplayIsNoOp ==
    (/\ VerifiedSuccess
     /\ Count(delivered, <<last_webhook.provider, last_webhook.target>>) >= 2
     /\ last_webhook.before = "paid") =>
        /\ last_webhook.code = 200
        /\ ~last_webhook.wrote
        /\ ~last_webhook.emailed

\* C6: a webhook request whose signature is missing or does not match is
\* answered 401 and changes no billing cycle, at every webhook handler.
C6_UnverifiedRejected ==
    (last_webhook.provider \in Providers /\ last_webhook.sig # "valid") =>
        /\ last_webhook.code = 401
        /\ ~last_webhook.wrote

(***************************************************************************)
(* Claims about the API-key routes (Spec).                                 *)
(***************************************************************************)
Finished(r) == r.pc = "done"
\* the request's X-API-Key named an active credential when it arrived and
\* the credential has not been revoked since
ValidKey(r) == r.active_on_arrival /\ GetAPIKeyByKey(r.header)

\* C5: on POST /api/v1/messages/send a request passes APIKeyMiddleware, then
\* RateLimitMiddleware, then the handler; one that carries a valid active
\* key and is not over quota (no 429) reaches the handler.
C5_PipelineOrder ==
    \A i \in DOMAIN requests :
        LET r == requests[i]
        IN (Finished(r) /\ r.route = "send" /\ ValidKey(r) /\ r.lookup # "error") =>
               /\ Before(r, "apikey", "ratelimit")
               /\ r.status # 429 => Reached(r, "handler")

\* C8: a request on an API-key route whose X-API-Key is missing, unknown or
\* inactive is answered 401 and never reaches the handler.
C8_BadKeyRejected ==
    \A i \in DOMAIN requests :
        LET r == requests[i]
        IN (Finished(r) /\ ~r.active_on_arrival) =>
               /\ r.status = 401
               /\ ~Reached(r, "handler")

\* C10: the usage record issued for a request that carries a valid key has
\* the organization id and the api key id of that key, the request's path
\* and method, and the status code sent in the response.
C10_UsageEventFields ==
    \A i \in DOMAIN requests :
        LET r == requests[i]
        IN (r.usage.issued /\ ValidKey(r)) =>
               /\ r.usage.organization_id = api_keys[r.header].organization_id
               /\ r.usage.api_key_id = r.header
               /\ r.usage.endpoint = Path(r.route)
               /\ r.usage.method = Method(r.route)
               /\ r.usage.status_code = r.status

(***************************************************************************)
(* Claims about the limiter (SpecLimiter).                                 *)
(***************************************************************************)
\* the limiter called next.ServeHTTP
Admitted(r) == Reached(r, "ratelimit") /\ (r.pc = "handler" \/ Reached(r, "handler"))
Windows == 0..(MaxClock \div SecPerMin)
AdmittedIn(org, w) ==
    {i \in DOMAIN requests :
        /\ requests[i].incr = "ok"
        /\ Admitted(requests[i])
        /\ requests[i].ctx_org = org
        /\ requests[i].at \div SecPerMin = w}

\* C4: for every organization and every wall-clock minute, the requests
\* whose increment succeeded and that the limiter admitted in that minute
\* number at most the limit plus one.
C4_AdmittedPerMinute ==
    \A org \in Orgs, w \in Windows : Cardinality(AdmittedIn(org, w)) <= RateLimit + 1

\* C7: a request whose counter increment failed is passed on to the handler;
\* it gets neither 429 nor a 5xx response.
C7_FailOpen ==
    \A i \in DOMAIN requests :
        LET r == requests[i]
        IN r.incr = "error" =>
               /\ Admitted(r)
               /\ r.status \in {0, 200, 400}
               /\ Finished(r) => Reached(r, "handler")

C7_Witness ==
    \E i \in DOMAIN requests :
        /\ requests[i].incr = "error"
        /\ Finished(requests[i])
        /\ Reached(requests[i], "handler")
        /\ requests[i].status = 200

\* the request resolved to an active credential, passed the limiter and was
\* handed to the handler
AdmittedRequest(r) ==
    r.lookup = "found" /\ Reached(r, "ratelimit") /\ Reached(r, "handler")

CountedIn(org, w) ==
    {i \in DOMAIN requests :
        /\ requests[i].incr # "none"
        /\ requests[i].ctx_org = org
        /\ requests[i].at \div SecPerMin = w}
\* request i is the k-th of its organization to call Incr in its minute
RankInWindow(i) ==
    Cardinality({j \in CountedIn(requests[i].ctx_org, requests[i].at \div SecPerMin) :
                    requests[j].turn <= requests[i].turn})

\* C12: when every increment of an organization's requests in one
\* wall-clock minute succeeds, the k-th request is admitted with
\* X-RateLimit-Remaining = limit - k for k <= limit, and request limit + 1
\* is answered 429 with remaining 0.
C12_QuotaSequence ==
    \A i \in DOMAIN requests :
        LET r == requests[i]
            k == RankInWindow(i)
        IN (/\ r.incr = "ok"
            /\ \A j \in CountedIn(r.ctx_org, r.at \div SecPerMin) : requests[j].incr = "ok") =>
               /\ k <= RateLimit => Admitted(r) /\ r.remaining = RateLimit - k
               /\ k = RateLimit + 1 => r.status = 429 /\ r.remaining = 0

CreatedBy(s) ==
    {id \in DOMAIN billing_cycles :
        id[1] = s /\ billing_cycles[id].period = monthly[s].period}
\* the monthly job of scheduler s has ended and none of its calls failed
EndedClean(s) == monthly[s].pc = "done" /\ monthly[s].errors = {}

VerifiedPaymentStep(id) ==
    /\ webhooks_handled' = webhooks_handled + 1
    /\ last_webhook'.target = id
    /\ last_webhook'.sig = "valid"
    /\ last_webhook'.evt = "success"

SweepEndedClean(s) == daily[s].ended /\ daily[s].errors = {}

C17_FailedWriteAborts ==
    \A s \in Schedulers :
        "CreateBillingCycle" \in monthly[s].errors => monthly[s].pc = "failed"

(***************************************************************************)
(* SpecPeriods: one scheduler process whose database calls succeed, over   *)
(* usage recorded around the boundary between month 0 and month 1.         *)
(***************************************************************************)
\* the first instant of month 0, the instant of its period_end, an instant
\* within the second that follows period_end, the first instant of month 1
UsageInstants == {periodStart(0), periodEnd(0), periodEnd(0) + 1, periodStart(1)}

InitPeriods ==
    /\ InitTables
    /\ usage_records \in [Orgs \X UsageInstants -> 0..1]
    /\ InitApi
    /\ build = "cmd/api"
    /\ pricing = NoPricing

NextPeriods ==
    \/ MonthlyTrigger(1)
    \/ ListOrganizations(1, TRUE)
    \/ createBillingCycleForOrg(1, TRUE)
    \/ AutoPayFetch(1, TRUE)
    \/ AutoPayStep(1, TRUE)
    \/ DailyTrigger(1)
    \/ OverdueFetch(1, TRUE)
    \/ OverdueMark(1, TRUE)
    \/ Tick

SpecPeriods == InitPeriods /\ [][NextPeriods]_vars

\* the usage rows of organization o with from <= created_at < before
UsageIn(o, from, before) ==
    SumOver(usage_records,
            {k \in DOMAIN usage_records : k[1] = o /\ k[2] >= from /\ k[2] < before})

\* C18: the total_requests of a cycle for month M is the number of usage rows
\* of its organization created in the half-open interval from the first
\* instant of M to the first instant of M + 1, so that every usage row falls
\* in exactly one period.
C18_PeriodHalfOpen ==
    \A id \in DOMAIN billing_cycles :
        LET c == billing_cycles[id]
        IN c.total_requests =
              UsageIn(c.organization_id, periodStart(c.period), periodStart(c.period + 1))

(***************************************************************************)
(* Claims about the webhook responses (SpecPayments).                      *)
(***************************************************************************)
\* the last request went to the Stripe or the Paystack handler and passed
\* signature verification
VerifiedBySigned ==
    last_webhook.provider \in {"stripe", "paystack"} /\ last_webhook.sig = "valid"

\* C19: a request to the Stripe or Paystack handler that passed signature
\* verification is answered 200, whatever the event type, the payload, the
\* billing_cycle_id of the metadata and the outcome of the status write.
C19_VerifiedAlways200 == VerifiedBySigned => last_webhook.code = 200
\* a verified payment-succeeded event for an existing cycle whose status
\* write failed, answered 200
C19_Witness ==
    /\ VerifiedBySigned
    /\ last_webhook.evt = "success"
    /\ last_webhook.target \in DOMAIN billing_cycles
    /\ ~last_webhook.wrote
    /\ last_webhook.code = 200

(***************************************************************************)
(* Claims about the effect of a webhook (SpecPayments).                    *)
(***************************************************************************)
\* the step handles a webhook request that carried a valid signature
VerifiedWebhookStep ==
    webhooks_handled' = webhooks_handled + 1 /\ last_webhook'.sig = "valid"

WindowEnd(t) == ((t \div SecPerMin) + 1) * SecPerMin
\* the limiter has set the X-RateLimit headers on the response of r
QuotaChecked(r) == r.remaining >= 0

\* C21: on every response the limiter set its headers on, X-RateLimit-Reset
\* is the second at which the request's wall-clock minute ends, and the
\* retry_after of a 429 is the number of seconds left until then.
C21_ResetIsWindowEnd ==
    \A i \in DOMAIN requests :
        LET r == requests[i]
        IN QuotaChecked(r) =>
              /\ r.reset = WindowEnd(r.at)
              /\ r.status = 429 => r.retry_after = WindowEnd(r.at) - r.at

(***************************************************************************)
(* Claims about the usage recorder (Spec).                                 *)
(***************************************************************************)
\* the number of rows of usage_records
UsageRows == SumOver(usage_records, DOMAIN usage_records)

\* C22: the usage write of a request is issued only in the step that follows
\* the return of the downstream handler, when the response has its status;
\* that step leaves the response as it was and ends the request whether the
\* write succeeded or failed, inserting at most one row; a request whose
\* write has been issued never issues another.
C22_UsageWriteAfterResponse ==
    [][\A i \in DOMAIN requests :
          LET r == requests[i]
              q == requests'[i]
          IN /\ (~r.usage.issued /\ q.usage.issued) =>
                   /\ r.pc = "record"
                   /\ Reached(r, "usage")
                   /\ r.status # 0
                   /\ q.status = r.status
                   /\ q.pc = "done"
                   /\ UsageRows' <= UsageRows + 1
             /\ r.usage.issued => q = r]_vars
\* a request whose usage write failed: it is finished, with the response the
\* limiter gave it
C22_Witness ==
    \E i \in DOMAIN requests :
        /\ requests[i].usage.issued
        /\ ~requests[i].usage.inserted
        /\ requests[i].pc = "done"
        /\ requests[i].status # 0

\* the requests of the organization of request i whose increment succeeded,
\* not after that of i, at an instant the layout formats as it formats i's
OwnCounted(i) ==
    {j \in DOMAIN requests :
        /\ requests[j].incr = "ok"
        /\ requests[j].ctx_org = requests[i].ctx_org
        /\ Format(Layout(build), requests[j].at) = Format(Layout(build), requests[i].at)
        /\ requests[j].turn <= requests[i].turn}

\* C23: the verdict and the remaining-quota header of a request are those of
\* the count of its own organization's requests, whatever other
\* organizations send; every counter holds the number of increments made by
\* requests of the organization in its key.
C23_TenantIsolation ==
    /\ \A i \in DOMAIN requests :
          LET r == requests[i]
              n == Cardinality(OwnCounted(i))
          IN r.incr = "ok" =>
                /\ n <= RateLimit => Admitted(r) /\ r.remaining = RateLimit - n
                /\ n > RateLimit => r.status = 429 /\ r.remaining = 0
    /\ \A k \in DOMAIN rate_limit :
          rate_limit[k].count =
             Cardinality({j \in DOMAIN requests :
                             /\ requests[j].incr = "ok"
                             /\ requests[j].ctx_org = k[1]
                             /\ Format(Layout(build), requests[j].at) = k[2]})
\* two organizations have each had a request counted at the same instant and
\* each was admitted with its own full quota
C23_Witness ==
    \E i, j \in DOMAIN requests :
        /\ requests[i].ctx_org # requests[j].ctx_org
        /\ requests[i].incr = "ok" /\ requests[j].incr = "ok"
        /\ requests[i].at = requests[j].at
        /\ Admitted(requests[i]) /\ Admitted(requests[j])
        /\ requests[i].remaining = RateLimit - 1
        /\ requests[j].remaining = RateLimit - 1

(***************************************************************************)
(* Claims about revocation (Spec).                                         *)
(***************************************************************************)
\* request r presented a key whose revocation had completed when it arrived
PresentedRevoked(r) == r.header \in Keys /\ ~r.active_on_arrival

\* C24: revoking a key keeps its row, with is_active false, and every
\* request that presents the key after the revocation is answered 401.
C24_RevokedKeyRejected ==
    /\ DOMAIN api_keys = Keys
    /\ \A i \in DOMAIN requests :
          LET r == requests[i]
          IN (Finished(r) /\ PresentedRevoked(r)) =>
                /\ ~api_keys[r.header].is_active
                /\ r.status = 401

(***************************************************************************)
(* AuthMiddleware (the JWT routes).  The Authorization header is held as   *)
(* the sequence strings.Split(authHeader, " ") returns for it: every       *)
(* string is the join by " " of exactly one non-empty sequence of strings  *)
(* without a space, the empty header being <<"">>.  internal/auth is       *)
(* modelled from the specification: a token carries a subject, the key it  *)
(* was signed with and an expiry.                                          *)
(***************************************************************************)
JwtSecret == "jwt-secret"
\* the tokens that parse as a JWT, with what they carry; any other string is
\* malformed
IssuedTokens ==
    [t \in {"jwt_valid", "jwt_wrongkey", "jwt_expiring"} |->
        [sub |-> 1,
         key |-> IF t = "jwt_wrongkey" THEN "other" ELSE JwtSecret,
         exp |-> IF t = "jwt_expiring" THEN 2 ELSE MaxClock + 1]]
Words == {"", "Bearer", "bearer", "x.y.z"} \cup DOMAIN IssuedTokens
AuthHeaders == UNION {[1..n -> Words] : n \in 1..MaxHeaderParts}

\* auth.ValidateJWT(tokenString, jwtSecret): format, signature and expiry
ValidateJWT(tokenString, secret, now) ==
    /\ tokenString \in DOMAIN IssuedTokens
    /\ IssuedTokens[tokenString].key = secret
    /\ now < IssuedTokens[tokenString].exp

\* len(parts) != 2 || parts[0] != "Bearer" is false
BearerFormLoose(parts) == Len(parts) >= 2 /\ parts[1] = "Bearer"
BearerForm(parts) == Len(parts) = 2 /\ parts[1] = "Bearer"

ArriveAtAuth(parts) ==
    /\ Len(auth_requests) < MaxAuthRequests
    /\ auth_requests' = Append(auth_requests,
          [parts |-> parts, pc |-> "auth", at |-> -1, user_id |-> 0,
           status |-> 0, served |-> FALSE])
    /\ UNCHANGED <<pricing, billVars, apiVars>>

\* AuthMiddleware up to next.ServeHTTP
AuthMiddleware(i) ==
    /\ auth_requests[i].pc = "auth"
    /\ LET r == [auth_requests[i] EXCEPT !.at = clock]
       IN auth_requests' = [auth_requests EXCEPT ![i] =
             IF r.parts = <<"">> THEN [r EXCEPT !.pc = "done", !.status = 401]
             ELSE IF ~BearerForm(r.parts) THEN [r EXCEPT !.pc = "done", !.status = 401]
             ELSE IF ~ValidateJWT(r.parts[2], JwtSecret, clock)
             THEN [r EXCEPT !.pc = "done", !.status = 401]
             ELSE [r EXCEPT !.pc = "handler",
                            !.user_id = IssuedTokens[r.parts[2]].sub]]
    /\ UNCHANGED <<pricing, billVars, apiVars>>

\* the downstream handler, which answers 200
ServeAuthenticated(i) ==
    /\ auth_requests[i].pc = "handler"
    /\ auth_requests' = [auth_requests EXCEPT ![i] =
          [@ EXCEPT !.pc = "done", !.status = 200, !.served = TRUE]]
    /\ UNCHANGED <<pricing, billVars, apiVars>>

InitAuth == Init

NextAuth ==
    \/ \E parts \in AuthHeaders : ArriveAtAuth(parts)
    \/ \E i \in DOMAIN auth_requests : AuthMiddleware(i)
    \/ \E i \in DOMAIN auth_requests : ServeAuthenticated(i)
    \/ ClockTick

SpecAuth == InitAuth /\ [][NextAuth]_vars

\* C25: AuthMiddleware invokes the downstream handler only for a header of
\* exactly two parts, "Bearer" and a token that is well formed, signed with
\* the configured secret and not expired; every other request, a missing
\* header included, is answered 401 without the handler being invoked.
C25_BearerTokenOnly ==
    \A i \in DOMAIN auth_requests :
        LET r == auth_requests[i]
            authentic ==
                /\ Len(r.parts) = 2
                /\ r.parts[1] = "Bearer"
                /\ r.parts[2] \in DOMAIN IssuedTokens
                /\ IssuedTokens[r.parts[2]].key = JwtSecret
                /\ r.at < IssuedTokens[r.parts[2]].exp
        IN r.pc # "auth" =>
              /\ (r.pc = "handler" \/ r.served) <=> authentic
              /\ ~authentic => r.status = 401 /\ r.pc = "done" /\ ~r.served
C25_Witness ==
    /\ \E i \in DOMAIN auth_requests :
          auth_requests[i].served /\ auth_requests[i].parts = <<"Bearer", "jwt_valid">>

(***************************************************************************)
(* Claims about the buckets of the limiter (SpecLimiter).                  *)
(***************************************************************************)
\* the wall-clock minute of instant t
Bucket(t) == t \div SecPerMin
\* the requests of the organization of request i counted in i's minute, not
\* after i
CountedInBucket(i) ==
    {j \in DOMAIN requests :
        /\ requests[j].incr = "ok"
        /\ requests[j].ctx_org = requests[i].ctx_org
        /\ Bucket(requests[j].at) = Bucket(requests[i].at)
        /\ requests[j].turn <= requests[i].turn}

\* C26: the value a request's increment returns counts only requests of its
\* organization processed in the same minute, and the first request of an
\* organization in a minute is returned 1.
C26_FreshBucket ==
    \A i \in DOMAIN requests :
        LET r == requests[i]
        IN r.incr = "ok" =>
              /\ r.count >= 1
              /\ r.count <= Cardinality(CountedInBucket(i))
              /\ CountedInBucket(i) = {i} => r.count = 1
\* an organization's first request of a later minute, after a counted
\* request of an earlier minute
C26_Witness ==
    \E i, j \in DOMAIN requests :
        /\ requests[i].incr = "ok" /\ requests[j].incr = "ok"
        /\ requests[i].ctx_org = requests[j].ctx_org
        /\ Bucket(requests[i].at) < Bucket(requests[j].at)
        /\ CountedInBucket(j) = {j}
        /\ requests[j].count = 1

(***************************************************************************)
(* SpecExpiry: RateLimitMiddleware against a store whose Expire command    *)
(* may fail to take effect after the increment was made.                   *)
(***************************************************************************)
InitExpiry == InitLimiter

NextExpiry ==
    \/ \E key \in Keys : ArriveAtLimiter(key)
    \/ \E i \in DOMAIN requests, ok \in BOOLEAN :
          \E expire_ok \in Relevant(ok) : RateLimitMiddleware(i, ok, expire_ok)
    \/ ClockTick

SpecExpiry == InitExpiry /\ [][NextExpiry]_vars

\* C27: every counter key the limiter has created carries an expiry, at most
\* one window width after the present.
C27_EveryKeyExpires ==
    \A k \in DOMAIN rate_limit :
        /\ rate_limit[k].expires # NoTTL
        /\ rate_limit[k].expires <= clock + SecPerMin

(***************************************************************************)
(* SpecPaging: one run of the monthly generation whose database calls      *)
(* succeed, while an organization registers.                               *)
(***************************************************************************)
\* the organization a registration creates
Registered == NumOrgs + 1

\* registerHandler: db.CreateOrganization with PlanTypeFree
registerHandler ==
    /\ Registered \notin DOMAIN organizations
    /\ organizations' = organizations @@ (Registered :> [plan |-> "free"])
    /\ UNCHANGED <<pricing, auth_requests, usage_records, billing_cycles, today, monthly,
                   daily, delivered, paid_writes, emails_sent, webhooks_handled,
                   last_webhook, apiVars>>

\* registerHandler after db.CreateUser returned an error:
\* db.DeleteOrganization(org.ID); the rows that reference the organization
\* go with it (ON DELETE CASCADE)
registerRollback ==
    /\ Registered \in DOMAIN organizations
    /\ organizations' = [o \in DOMAIN organizations \ {Registered} |-> organizations[o]]
    /\ billing_cycles' =
          [id \in {x \in DOMAIN billing_cycles :
                      billing_cycles[x].organization_id # Registered}
              |-> billing_cycles[id]]
    /\ usage_records' =
          [k \in {x \in DOMAIN usage_records : x[1] # Registered} |-> usage_records[k]]
    /\ UNCHANGED <<pricing, auth_requests, today, monthly, daily, delivered, paid_writes,
                   emails_sent, webhooks_handled, last_webhook, apiVars>>

NextPaging ==
    \/ MonthlyTrigger(1)
    \/ ListOrganizations(1, TRUE)
    \/ createBillingCycleForOrg(1, TRUE)
    \/ AutoPayFetch(1, TRUE)
    \/ AutoPayStep(1, TRUE)
    \/ registerHandler
    \/ registerRollback

SpecPaging == InitBilling /\ [][NextPaging]_vars

\* the calls of createBillingCycleForOrg the run of scheduler s made for o
TimesProcessed(s, o) ==
    Cardinality({j \in DOMAIN monthly[s].processed : monthly[s].processed[j] = o})

\* C28: when a generation sweep has ended, every organization that existed
\* when it started and still exists has been processed exactly once.
C28_EachTenantOnce ==
    \A s \in Schedulers :
        monthly[s].pc = "done" =>
            \A o \in monthly[s].started_with \cap DOMAIN organizations :
                TimesProcessed(s, o) = 1

(***************************************************************************)
(* Claims about the stored amounts (SpecPricing).                          *)
(***************************************************************************)
\* C29: the total_amount a cycle row holds, in cents, is exactly the amount
\* the pricing function returned, in thousandths of a dollar, and its
\* total_requests is the counted usage.
C29_StoredAmountExact ==
    pricing.calls = 3 =>
        /\ pricing.total_amount * 10 = pricing.amount
        /\ pricing.total_requests = pricing.requests

(***************************************************************************)
(* Claims about zero-amount cycles and the overdue sweep (SpecBilling).    *)
(***************************************************************************)
\* C30: a cycle whose total_amount is 0 is never in status overdue, whatever
\* the generation run and the auto-pay sweep did before.
C30_ZeroAmountNeverOverdue ==
    \A id \in DOMAIN billing_cycles :
        billing_cycles[id].total_amount = 0 =>
            billing_cycles[id].status # "overdue"

====
